---- MODULE Spec2Model ----
(***************************************************************************)
(* Resume screener backend: parser.py (text, skill and experience          *)
(* extraction), matcher.py (similarity, coverage, score fusion) and        *)
(* main.py (the /rank and / endpoints).                                    *)
(*                                                                         *)
(* Numbers that are floats in the program are exact rationals <<n, d>>     *)
(* with d > 0.  Strings the program scans character by character are       *)
(* sequences of one-character strings.                                     *)
(***************************************************************************)
EXTENDS Integers, Sequences, FiniteSets, TLC

VARIABLES
    MODEL,        \* matcher.MODEL: "loaded" or "None"
    pc,           \* per request: position in rank_resume
    req,          \* per request: the form fields and the uploaded file
    fs,           \* paths of the temporary files that exist
    created,      \* per request: the path NamedTemporaryFile created, or <<>>
    parsed,       \* per request: <<what parse_resume returned>>, or <<>>
    resp,         \* per request: the HTTP outcome
    nextTmp,      \* source of fresh temporary names
    root,         \* last answer of GET /
    fn,           \* pure-function harness: which function was called
    args,         \* pure-function harness: its arguments
    ret           \* pure-function harness: its return value

vars == <<MODEL, pc, req, fs, created, parsed, resp, nextTmp, root, fn, args, ret>>

----------------------------------------------------------------------------
(* Bounds *)

NumSkills == 3
MaxListLen == 3
MaxTextLen == 4
MaxReqs == 2
MaxScoreDen == 2

----------------------------------------------------------------------------
(* Bind(v, F) is F(v) with v evaluated once. *)
Bind(v, F(_)) == CHOOSE r \in {F(x) : x \in {v}} : TRUE

----------------------------------------------------------------------------
(* Rationals *)

Rat(n, d) == <<n, d>>
RatEq(a, b) == a[1] * b[2] = b[1] * a[2]
RatLeq(a, b) == a[1] * b[2] <= b[1] * a[2]
RatAdd(a, b) == <<a[1] * b[2] + b[1] * a[2], a[2] * b[2]>>
RatMul(a, b) == <<a[1] * b[1], a[2] * b[2]>>
Abs(x) == IF x < 0 THEN -x ELSE x

\* round-half-to-even of n/d to an integer, as the format specs .0f and .2f round
RoundHalfEven(n, d) ==
    LET a == Abs(n)
        q == a \div d
        r == a % d
        m == IF 2 * r > d \/ (2 * r = d /\ q % 2 = 1) THEN q + 1 ELSE q
    IN IF n < 0 THEN -m ELSE m

----------------------------------------------------------------------------
(* Skills: Python compares the strings lexicographically; SortedSkills     *)
(* lists the modelled skill names in that order.                          *)

SortedSkills == <<"aws", "java", "python", "sql", "tableau", "terraform">>
SkillOrder == SubSeq(SortedSkills, 1, NumSkills)
SkillUniverse == {SkillOrder[i] : i \in 1..Len(SkillOrder)}
Rank(s) == CHOOSE i \in 1..Len(SkillOrder) : SkillOrder[i] = s

\* set(list)
SetOf(seq) == {seq[i] : i \in 1..Len(seq)}

\* sorted(list(S)) for a set of skill names
RECURSIVE sorted(_)
sorted(S) ==
    IF S = {} THEN <<>>
    ELSE Bind(CHOOSE x \in S : \A y \in S : Rank(x) <= Rank(y),
              LAMBDA m : <<m>> \o sorted(S \ {m}))

\* all lists over S of length <= n
ListsUpTo(S, n) == UNION {[1..k -> S] : k \in 0..n}

----------------------------------------------------------------------------
(* matcher.py *)

\* variants of check_skill_coverage: the difference taken the wrong way
\* round, the empty case scored 0.0, the ratio taken over the list's length
check_skill_coverage_swapped(resume_skills, jd_skills) ==
    IF jd_skills = <<>>
    THEN [matched_skills |-> <<>>, missing_skills |-> <<>>,
          coverage_percentage |-> Rat(1, 1)]
    ELSE [matched_skills |-> sorted(SetOf(resume_skills) \cap SetOf(jd_skills)),
          missing_skills |-> sorted(SetOf(resume_skills) \ SetOf(jd_skills)),
          coverage_percentage |->
              Rat(Cardinality(SetOf(resume_skills) \cap SetOf(jd_skills)),
                  Cardinality(SetOf(jd_skills)))]
check_skill_coverage_empty_zero(resume_skills, jd_skills) ==
    IF jd_skills = <<>>
    THEN [matched_skills |-> <<>>, missing_skills |-> <<>>,
          coverage_percentage |-> Rat(0, 1)]
    ELSE [matched_skills |-> sorted(SetOf(resume_skills) \cap SetOf(jd_skills)),
          missing_skills |-> sorted(SetOf(jd_skills) \ SetOf(resume_skills)),
          coverage_percentage |->
              Rat(Cardinality(SetOf(resume_skills) \cap SetOf(jd_skills)),
                  Cardinality(SetOf(jd_skills)))]
check_skill_coverage_list_len(resume_skills, jd_skills) ==
    IF jd_skills = <<>>
    THEN [matched_skills |-> <<>>, missing_skills |-> <<>>,
          coverage_percentage |-> Rat(1, 1)]
    ELSE [matched_skills |-> sorted(SetOf(resume_skills) \cap SetOf(jd_skills)),
          missing_skills |-> sorted(SetOf(jd_skills) \ SetOf(resume_skills)),
          coverage_percentage |->
              Rat(Cardinality(SetOf(resume_skills) \cap SetOf(jd_skills)),
                  Len(jd_skills))]

\* check_skill_coverage(resume_skills, jd_skills)
check_skill_coverage(resume_skills, jd_skills) ==
    IF jd_skills = <<>>
    THEN [matched_skills |-> <<>>, missing_skills |-> <<>>,
          coverage_percentage |-> Rat(1, 1)]
    ELSE LET set_resume_skills == SetOf(resume_skills)
             set_jd_skills == SetOf(jd_skills)
             matched_skills == sorted(set_resume_skills \cap set_jd_skills)
             missing_skills == sorted(set_jd_skills \ set_resume_skills)
         IN [matched_skills |-> matched_skills,
             missing_skills |-> missing_skills,
             coverage_percentage |->
                 Rat(Len(matched_skills), Cardinality(set_jd_skills))]

\* variant of calculate_final_score that clamps the score to at most 1.0
calculate_final_score_clamped(semantic_score, skill_coverage, weights) ==
    LET w == IF weights.none
             THEN [none |-> FALSE, semantic |-> Rat(6, 10), skill |-> Rat(4, 10)]
             ELSE weights
        weighted_score == RatAdd(RatMul(w.semantic, semantic_score),
                                 RatMul(w.skill, skill_coverage))
    IN [final_score |-> IF RatLeq(weighted_score, Rat(1, 1))
                        THEN weighted_score ELSE Rat(1, 1),
        explanation |-> <<>>]

\* the weights used when the caller passes weights=None
\* (a weights argument is [none |-> BOOLEAN, semantic, skill]; none = TRUE is
\* Python's None and its other fields are then unused)
DefaultWeights == [none |-> FALSE, semantic |-> Rat(6, 10), skill |-> Rat(4, 10)]

\* calculate_final_score(semantic_score, skill_coverage, weights)
calculate_final_score(semantic_score, skill_coverage, weights) ==
    LET w == IF weights.none THEN DefaultWeights ELSE weights
        weighted_score == RatAdd(RatMul(w.semantic, semantic_score),
                                 RatMul(w.skill, skill_coverage))
        explanation ==
            [semantic_pct |-> RoundHalfEven(w.semantic[1] * 100, w.semantic[2]),
             semantic_2f |-> RoundHalfEven(semantic_score[1] * 100, semantic_score[2]),
             skill_pct |-> RoundHalfEven(w.skill[1] * 100, w.skill[2]),
             coverage_2f |-> RoundHalfEven(skill_coverage[1] * 100, skill_coverage[2])]
    IN [final_score |-> weighted_score, explanation |-> explanation]

\* calculate_semantic_similarity(model, text1, text2); encoded is what
\* model.encode / util.cos_sim yield: [raises |-> BOOLEAN, sim |-> rational]
calculate_semantic_similarity(model, encoded) ==
    IF model = "None" THEN Rat(0, 1)
    ELSE IF encoded.raises THEN Rat(0, 1)
    ELSE encoded.sim

----------------------------------------------------------------------------
(* parser.py *)

\* SKILL_DATABASE, restricted to the modelled skill names, in the order of
\* the list in the source
DatabaseOrder == <<"python", "java", "sql", "aws", "terraform", "tableau">>
SKILL_DATABASE == SelectSeq(DatabaseOrder, LAMBDA s : s \in SkillUniverse)

\* default threshold of extract_skills, and the one parse_skills_from_jd passes
ResumeThreshold == 85
JDThreshold == 90

\* variant of process.extract that drops the scores equal to the cutoff
process_extract_strict(score, skill_list, score_cutoff) ==
    LET keep == SelectSeq([i \in 1..Len(skill_list) |-> i],
                          LAMBDA i : score[skill_list[i]] > score_cutoff)
    IN [k \in 1..Len(keep) |->
            <<skill_list[keep[k]], score[skill_list[keep[k]]], keep[k]>>]

\* process.extract(text, skill_list, scorer=PARTIAL_RATIO, limit=None,
\* score_cutoff=threshold): the (skill, score, index) triples of the choices
\* whose score is not below the cutoff.  score[s] is the partial-ratio score
\* of skill s against the text, a value of the fuzzy-matching library.
process_extract(score, skill_list, score_cutoff) ==
    LET keep == SelectSeq([i \in 1..Len(skill_list) |-> i],
                          LAMBDA i : score[skill_list[i]] >= score_cutoff)
    IN [k \in 1..Len(keep) |->
            <<skill_list[keep[k]], score[skill_list[keep[k]]], keep[k]>>]

\* extract_skills(text, skill_list, threshold)
extract_skills(score, skill_list, threshold) ==
    LET matches == process_extract(score, skill_list, threshold)
        found_skills == {matches[k][1] : k \in 1..Len(matches)}
    IN sorted(found_skills)

\* str.lower() on the characters the model uses
Lower(c) ==
    CASE c = "Y" -> "y" [] c = "E" -> "e" [] c = "A" -> "a"
      [] c = "R" -> "r" [] c = "S" -> "s" [] OTHER -> c
lower(text) == [i \in 1..Len(text) |-> Lower(text[i])]

Digits == <<"0", "1", "2", "3", "4", "5", "6", "7", "8", "9">>
IsDigit(c) == \E i \in 1..10 : Digits[i] = c
DigitVal(c) == (CHOOSE i \in 1..10 : Digits[i] = c) - 1
IsSpace(c) == c \in {" ", "\t", "\n"}
At(text, i) == IF i >= 1 /\ i <= Len(text) THEN text[i] ELSE ""

\* The two patterns of extract_years_of_experience,
\*   1: (\d+\.?\d*)\s*\+?\s*ye?a?rs?      2: (\d+\.?\d*)\s*\+?\s*yrs?
\* as lists of elements [cls, min, many]: cls is "d" (\d), "s" (\s) or a
\* literal character; the element takes at least min and, unless many, at
\* most one character of the class.
El(cls, min, many) == [cls |-> cls, min |-> min, many |-> many]
GroupElems == <<El("d", 1, TRUE), El(".", 0, FALSE), El("d", 0, TRUE)>>
TailElems(pattern) ==
    <<El("s", 0, TRUE), El("+", 0, FALSE), El("s", 0, TRUE), El("y", 1, FALSE)>>
    \o (IF pattern = 1 THEN <<El("e", 0, FALSE), El("a", 0, FALSE)>> ELSE <<>>)
    \o <<El("r", 1, FALSE), El("s", 0, FALSE)>>

InClass(cls, c) ==
    CASE cls = "d" -> IsDigit(c)
      [] cls = "s" -> IsSpace(c)
      [] OTHER -> c = cls

\* number of characters from pos on that are in the class, at most limit
RECURSIVE RunLen(_, _, _, _)
RunLen(text, pos, cls, limit) ==
    IF limit > 0 /\ pos <= Len(text) /\ InClass(cls, At(text, pos))
    THEN 1 + RunLen(text, pos + 1, cls, limit - 1)
    ELSE 0

\* The position after elems[k..] matched from pos, or 0 when they do not
\* match.  Every element is greedy, and re gains nothing by giving a
\* character back: the character a shorter choice leaves behind (a digit,
\* ".", whitespace, "+", "e", "a", "s") is none the following element accepts.
RECURSIVE MatchFrom(_, _, _, _)
MatchFrom(text, pos, elems, k) ==
    IF k > Len(elems) THEN pos
    ELSE Bind(RunLen(text, pos, elems[k].cls,
                     IF elems[k].many THEN Len(text) ELSE 1),
              LAMBDA n : IF n < elems[k].min THEN 0
                         ELSE MatchFrom(text, pos + n, elems, k + 1))

\* one attempt to match the pattern at position i
MatchAt(text, i, pattern) ==
    Bind(MatchFrom(text, i, GroupElems, 1), LAMBDA g :
        IF g = 0 THEN [ok |-> FALSE, group |-> <<>>, end |-> i]
        ELSE Bind(MatchFrom(text, g, TailElems(pattern), 1), LAMBDA e :
            IF e = 0 THEN [ok |-> FALSE, group |-> <<>>, end |-> i]
            ELSE [ok |-> TRUE, group |-> SubSeq(text, i, g - 1), end |-> e]))

\* re.findall(pattern, text): the group of every match, scanning from the
\* left and resuming where the previous match ended
RECURSIVE FindAllFrom(_, _, _)
FindAllFrom(text, pos, pattern) ==
    IF pos > Len(text) THEN <<>>
    ELSE Bind(MatchAt(text, pos, pattern), LAMBDA m :
            IF m.ok THEN <<m.group>> \o FindAllFrom(text, m.end, pattern)
            ELSE FindAllFrom(text, pos + 1, pattern))
findall(pattern, text) == FindAllFrom(text, 1, pattern)

\* float(match) for a match of \d+\.?\d*: the digits as a number over the
\* power of ten of the digits after the point (float never raises on these)
RECURSIVE DigitsNum(_)
DigitsNum(ds) ==
    IF ds = <<>> THEN 0
    ELSE 10 * DigitsNum(SubSeq(ds, 1, Len(ds) - 1)) + DigitVal(ds[Len(ds)])
RECURSIVE Pow10(_)
Pow10(k) == IF k = 0 THEN 1 ELSE 10 * Pow10(k - 1)
float(match) ==
    LET ds == SelectSeq(match, IsDigit)
        dot == IF \E i \in 1..Len(match) : match[i] = "."
               THEN CHOOSE i \in 1..Len(match) : match[i] = "."
               ELSE Len(match)
    IN Rat(DigitsNum(ds), Pow10(Len(match) - dot))

\* max(list): the first of the largest elements
RECURSIVE max(_)
max(xs) ==
    IF Len(xs) = 1 THEN xs[1]
    ELSE Bind(max(SubSeq(xs, 1, Len(xs) - 1)),
              LAMBDA m : IF RatLeq(xs[Len(xs)], m) THEN m ELSE xs[Len(xs)])

Floats(matches) == [k \in 1..Len(matches) |-> float(matches[k])]

\* variant of extract_years_of_experience that returns the last number found
extract_years_of_experience_last(text) ==
    Bind(<<Rat(0, 1)>> \o Floats(findall(1, text)) \o Floats(findall(2, text)),
         LAMBDA found_years : found_years[Len(found_years)])

\* extract_years_of_experience(text)
extract_years_of_experience(text) ==
    Bind(<<Rat(0, 1)>> \o Floats(findall(1, text)) \o Floats(findall(2, text)),
         LAMBDA found_years : max(found_years))

\* os.path.splitext(p)[1]: the text from the last "." of the last path
\* component, unless only dots precede it there
LastIndexOf(p, c) ==
    IF \E i \in 1..Len(p) : p[i] = c
    THEN CHOOSE i \in 1..Len(p) : p[i] = c /\ \A j \in (i + 1)..Len(p) : p[j] # c
    ELSE 0
splitext_ext(p) ==
    LET sepIndex == LastIndexOf(p, "/")
        dotIndex == LastIndexOf(p, ".")
    IN IF dotIndex > sepIndex
          /\ \E k \in (sepIndex + 1)..(dotIndex - 1) : p[k] # "."
       THEN SubSeq(p, dotIndex, Len(p))
       ELSE <<>>

\* str.endswith
endswith(p, suffix) ==
    /\ Len(suffix) <= Len(p)
    /\ SubSeq(p, Len(p) - Len(suffix) + 1, Len(p)) = suffix

\* extract_text_from_pdf / extract_text_from_docx: the reader's text in lower
\* case, or "" when the reader raises.  file is what the reader finds at the
\* path: [readable |-> BOOLEAN, text |-> characters, score |-> partial-ratio
\* score of each skill against the lowered text]
extract_text_from_pdf(file) == IF file.readable THEN lower(file.text) ELSE <<>>
extract_text_from_docx(file) == IF file.readable THEN lower(file.text) ELSE <<>>

NoData == [error |-> "", raw_text |-> <<>>, skills |-> <<>>,
           experience_years |-> Rat(0, 1)]

\* parse_resume(file_path); error = "" stands for a dict with no "error" key
parse_resume(file_path, file) ==
    LET isPdf == endswith(file_path, <<".", "p", "d", "f">>)
        isDocx == endswith(file_path, <<".", "d", "o", "c", "x">>)
    IN IF ~isPdf /\ ~isDocx
       THEN [NoData EXCEPT !.error = "Unsupported file type"]
       ELSE Bind(IF isPdf THEN extract_text_from_pdf(file)
                 ELSE extract_text_from_docx(file),
                 LAMBDA text :
           IF text = <<>>
           THEN [NoData EXCEPT !.error = "Could not read text from file"]
           ELSE [error |-> "",
                 raw_text |-> text,
                 skills |-> extract_skills(file.score, SKILL_DATABASE,
                                           ResumeThreshold),
                 experience_years |-> extract_years_of_experience(text)])

\* parse_skills_from_jd(jd_text); jd.score is the partial-ratio score of each
\* skill against jd_text.lower()
parse_skills_from_jd(jd) == extract_skills(jd.score, SKILL_DATABASE, JDThreshold)

----------------------------------------------------------------------------
(* main.py *)

Reqs == 1..MaxReqs

\* read_root()
read_root == [status |-> "ok", message |-> "Resume Screener API is running!"]
NoAnswer == [status |-> "", message |-> ""]

HTTPException(status_code, detail) ==
    [status |-> status_code, detail |-> detail, body |-> <<>>]
NoResponse == [status |-> 0, detail |-> "", body |-> <<>>]

\* the name NamedTemporaryFile(delete=False, suffix=...) gives the file
TempPath(n, suffix) == <<"/", "t", "m", "p", ToString(n)>> \o suffix

\* Lines 96-140 of rank_resume: the body of the second try statement with
\* its except clause.  encoded is what the embedding model yields for the
\* two texts.  HTTPException is a subclass of Exception, so the clause
\* "except Exception" also catches the one line 100 raises.
rank_try(request, temp_file_path, encoded) ==
    Bind(parse_resume(temp_file_path, request.upload), LAMBDA resume_data :
    LET raised == IF resume_data.error # ""
                  THEN <<HTTPException(400, "Error parsing resume")>>
                  ELSE <<>>
        jd_skills == parse_skills_from_jd(request.job_description)
        semantic_score == calculate_semantic_similarity(MODEL, encoded)
        skill_coverage_data ==
            check_skill_coverage(resume_data.skills, jd_skills)
        score_data ==
            calculate_final_score(semantic_score,
                                  skill_coverage_data.coverage_percentage,
                                  [DefaultWeights EXCEPT !.none = TRUE])
        response ==
            [filename |-> request.filename,
             resume_skills |-> resume_data.skills,
             experience_years |-> resume_data.experience_years,
             jd_skills |-> jd_skills,
             semantic_similarity |-> semantic_score,
             skill_coverage |-> skill_coverage_data,
             final_score |-> score_data.final_score,
             explanation |-> score_data.explanation]
    IN IF raised # <<>>
       THEN HTTPException(500, "An unexpected error occurred")
       ELSE [status |-> 200, detail |-> "", body |-> <<response>>])

\* Inputs of a rank request
FileNames == {<<"c", "v", ".", "p", "d", "f">>,
              <<"c", "v", ".", "d", "o", "c", "x">>,
              <<"c", "v", ".", "t", "x", "t">>}
ScoreTables == {[s \in SkillUniverse |-> 100],
                [s \in SkillUniverse |-> IF Rank(s) % 2 = 1 THEN 87 ELSE 84]}
Uploads ==
    {[readable |-> TRUE, text |-> <<"5", "+", " ", "Y", "r", "s">>, score |-> t] :
        t \in ScoreTables}
    \cup {[readable |-> TRUE, text |-> <<>>, score |-> [s \in SkillUniverse |-> 0]],
          [readable |-> FALSE, text |-> <<>>, score |-> [s \in SkillUniverse |-> 0]]}
JobDescriptions == {[score |-> t] : t \in ScoreTables}
Requests == [filename : FileNames, upload : Uploads, job_description : JobDescriptions]
NoRequest == [filename |-> <<>>,
              upload |-> [readable |-> FALSE, text |-> <<>>,
                          score |-> [s \in SkillUniverse |-> 0]],
              job_description |-> [score |-> [s \in SkillUniverse |-> 0]]]
\* what model.encode and util.cos_sim can yield
Encodings == {[raises |-> TRUE, sim |-> Rat(0, 1)],
              [raises |-> FALSE, sim |-> Rat(1, 2)],
              [raises |-> FALSE, sim |-> Rat(1, 1)]}

\* the harness variables, unused by the endpoints
FnIdle == fn = "" /\ args = <<>> /\ ret = <<>>

\* matcher.py lines 7-12 run at import: MODEL is the model or None
Init ==
    /\ MODEL \in {"loaded", "None"}
    /\ pc = [r \in Reqs |-> "idle"]
    /\ req = [r \in Reqs |-> NoRequest]
    /\ fs = {}
    /\ created = [r \in Reqs |-> <<>>]
    /\ parsed = [r \in Reqs |-> <<>>]
    /\ resp = [r \in Reqs |-> NoResponse]
    /\ nextTmp = 1
    /\ root = NoAnswer
    /\ FnIdle

\* a POST /rank arrives with its form fields
Receive(r) ==
    /\ pc[r] = "idle"
    /\ \E request \in Requests : req' = [req EXCEPT ![r] = request]
    /\ pc' = [pc EXCEPT ![r] = "entry"]
    /\ UNCHANGED <<MODEL, fs, created, parsed, resp, nextTmp, root, fn, args, ret>>

\* lines 83-84
RankModelNotLoaded(r) ==
    /\ pc[r] = "entry"
    /\ MODEL = "None"
    /\ resp' = [resp EXCEPT ![r] =
           HTTPException(500, "ML Model is not loaded. Cannot process request.")]
    /\ pc' = [pc EXCEPT ![r] = "done"]
    /\ UNCHANGED <<MODEL, req, fs, created, parsed, nextTmp, root, fn, args, ret>>

\* lines 87-89 and 93-94: NamedTemporaryFile itself raises, no file exists
RankCreateRaises(r) ==
    /\ pc[r] = "entry"
    /\ MODEL # "None"
    /\ resp' = [resp EXCEPT ![r] =
           HTTPException(500, "Error saving temporary file")]
    /\ pc' = [pc EXCEPT ![r] = "done"]
    /\ UNCHANGED <<MODEL, req, fs, created, parsed, nextTmp, root, fn, args, ret>>

\* lines 87-90: the file is created under a fresh name and the coroutine
\* awaits resume_file.read()
RankCreateTemp(r) ==
    /\ pc[r] = "entry"
    /\ MODEL # "None"
    /\ LET path == TempPath(nextTmp, splitext_ext(req[r].filename))
       IN /\ fs' = fs \cup {path}
          /\ created' = [created EXCEPT ![r] = path]
    /\ nextTmp' = nextTmp + 1
    /\ pc' = [pc EXCEPT ![r] = "await_read"]
    /\ UNCHANGED <<MODEL, req, parsed, resp, root, fn, args, ret>>

\* lines 90, 93-94: read() or write() raises; the with block closes the file,
\* which delete=False keeps, and the handler raises before the try of line 96
RankReadRaises(r) ==
    /\ pc[r] = "await_read"
    /\ resp' = [resp EXCEPT ![r] =
           HTTPException(500, "Error saving temporary file")]
    /\ pc' = [pc EXCEPT ![r] = "done"]
    /\ UNCHANGED <<MODEL, req, fs, created, parsed, nextTmp, root, fn, args, ret>>

\* lines 90-145 after a successful read: temp_file_path is bound, the try
\* block runs, and the finally clause unlinks the file
RankProcess(r, encoded) ==
    LET temp_file_path == created[r]
    IN /\ parsed' = [parsed EXCEPT ![r] =
              <<parse_resume(temp_file_path, req[r].upload)>>]
       /\ resp' = [resp EXCEPT ![r] = rank_try(req[r], temp_file_path, encoded)]
       /\ fs' = fs \ {temp_file_path}
       /\ pc' = [pc EXCEPT ![r] = "done"]
       /\ UNCHANGED <<MODEL, req, created, nextTmp, root, fn, args, ret>>

\* the resume does not parse (lines 98-100, 138-145)
RankParseFails(r) ==
    /\ pc[r] = "await_read"
    /\ parse_resume(created[r], req[r].upload).error # ""
    /\ \E encoded \in Encodings : RankProcess(r, encoded)

\* the resume parses (lines 98-136, 142-145)
RankCompletes(r) ==
    /\ pc[r] = "await_read"
    /\ parse_resume(created[r], req[r].upload).error = ""
    /\ \E encoded \in Encodings : RankProcess(r, encoded)

\* GET /
ReadRoot ==
    /\ root' = read_root
    /\ UNCHANGED <<MODEL, pc, req, fs, created, parsed, resp, nextTmp, fn, args, ret>>

Next ==
    \/ \E r \in Reqs : Receive(r)
    \/ \E r \in Reqs : RankModelNotLoaded(r)
    \/ \E r \in Reqs : RankCreateRaises(r)
    \/ \E r \in Reqs : RankCreateTemp(r)
    \/ \E r \in Reqs : RankReadRaises(r)
    \/ \E r \in Reqs : RankParseFails(r)
    \/ \E r \in Reqs : RankCompletes(r)
    \/ ReadRoot

Spec == Init /\ [][Next]_vars

----------------------------------------------------------------------------
(* The functions of parser.py and matcher.py called on their own *)

Endpoints == <<MODEL, pc, req, fs, created, parsed, resp, nextTmp, root>>

SkillLists == ListsUpTo(SkillUniverse, MaxListLen)

\* scores in [0, 1] with denominators up to MaxScoreDen
UnitScores == {x \in (0..MaxScoreDen) \X (1..MaxScoreDen) : x[1] <= x[2]}
WeightValues == {Rat(0, 1), Rat(4, 10), Rat(6, 10), Rat(1, 1)}
WeightArgs == {[DefaultWeights EXCEPT !.none = TRUE]}
              \cup [none : {FALSE}, semantic : WeightValues, skill : WeightValues]

ScoreValues == {84, 85, 90, 100}
Thresholds == {ResumeThreshold, JDThreshold}

Alphabet == {"3", "5", ".", "+", " ", "y", "r"}
ExampleTexts ==
    {<<"5", "+", " ", "y", "e", "a", "r", "s", ",", " ",
       "a", "l", "s", "o", " ", "3", " ", "y", "r", "s">>,
     <<"3", " ", "y", "r", "s", ",", " ", "1", "0", ".", "5", " ",
       "y", "e", "a", "r", "s">>,
     <<"2", "y", "a", "r", " ", "7", ".", "y", "e", "r">>,
     <<"n", "o", " ", "y", "e", "a", "r", "s">>,
     <<"y", "e", "a", "r", " ", "5">>}
Texts == ListsUpTo(Alphabet, MaxTextLen) \cup ExampleTexts

CallCheckSkillCoverage ==
    /\ fn = ""
    /\ \E rs \in SkillLists, js \in SkillLists :
          /\ args' = [resume_skills |-> rs, jd_skills |-> js]
          /\ ret' = check_skill_coverage(rs, js)
    /\ fn' = "check_skill_coverage"
    /\ UNCHANGED Endpoints

CallCalculateFinalScore ==
    /\ fn = ""
    /\ \E s \in UnitScores, c \in UnitScores, w \in WeightArgs :
          /\ args' = [semantic_score |-> s, skill_coverage |-> c, weights |-> w]
          /\ ret' = calculate_final_score(s, c, w)
    /\ fn' = "calculate_final_score"
    /\ UNCHANGED Endpoints

CallExtractSkills ==
    /\ fn = ""
    /\ \E score \in [SkillUniverse -> ScoreValues], skill_list \in SkillLists,
          threshold \in Thresholds :
          /\ args' = [score |-> score, skill_list |-> skill_list,
                      threshold |-> threshold]
          /\ ret' = extract_skills(score, skill_list, threshold)
    /\ fn' = "extract_skills"
    /\ UNCHANGED Endpoints

CallExtractYears ==
    /\ fn = ""
    /\ \E text \in Texts :
          /\ args' = [text |-> text]
          /\ ret' = extract_years_of_experience(text)
    /\ fn' = "extract_years_of_experience"
    /\ UNCHANGED Endpoints

InitFunctions == Init /\ MODEL = "loaded"

NextFunctions ==
    \/ CallCheckSkillCoverage
    \/ CallCalculateFinalScore
    \/ CallExtractSkills
    \/ CallExtractYears

SpecFunctions == InitFunctions /\ [][NextFunctions]_vars

----------------------------------------------------------------------------
(* Properties of the functions, under SpecFunctions *)

\* a list of skills in strictly ascending order (sorted, no duplicates)
Ascending(xs) == \A i \in 1..(Len(xs) - 1) : Rank(xs[i]) < Rank(xs[i + 1])

Covered == fn = "check_skill_coverage"

\* C4: for every candidate list and every non-empty required list, the
\* matched and missing skills check_skill_coverage returns are disjoint and
\* together are exactly the required skills.
C4_MatchedMissingPartition ==
    (Covered /\ args.jd_skills # <<>>) =>
        /\ SetOf(ret.matched_skills) \cup SetOf(ret.missing_skills)
               = SetOf(args.jd_skills)
        /\ SetOf(ret.matched_skills) \cap SetOf(ret.missing_skills) = {}

C4_Witness ==
    /\ Covered
    /\ args.jd_skills # <<>>
    /\ ret.matched_skills # <<>>
    /\ ret.missing_skills # <<>>
    /\ SetOf(args.resume_skills) \ SetOf(args.jd_skills) # {}

\* C5: with an empty required list check_skill_coverage returns coverage 1.0
\* and empty matched and missing lists, whatever the candidate list.
C5_EmptyRequired ==
    (Covered /\ args.jd_skills = <<>>) =>
        /\ ret.matched_skills = <<>>
        /\ ret.missing_skills = <<>>
        /\ RatEq(ret.coverage_percentage, Rat(1, 1))

C5_Witness ==
    /\ Covered
    /\ args.jd_skills = <<>>
    /\ args.resume_skills # <<>>
    /\ ret.coverage_percentage = Rat(1, 1)

\* C6: for a non-empty required list, matched is the ascending list of
\* candidate /\ required, missing the ascending list of required - candidate,
\* and the ratio is |matched| over the number of distinct required skills,
\* so it lies in [0, 1].
C6_CoverageValues ==
    (Covered /\ args.jd_skills # <<>>) =>
        LET candidate == SetOf(args.resume_skills)
            required == SetOf(args.jd_skills)
            ratio == ret.coverage_percentage
        IN /\ SetOf(ret.matched_skills) = candidate \cap required
           /\ SetOf(ret.missing_skills) = required \ candidate
           /\ Ascending(ret.matched_skills)
           /\ Ascending(ret.missing_skills)
           /\ ratio[2] > 0
           /\ ratio[1] * Cardinality(required)
                  = Cardinality(candidate \cap required) * ratio[2]
           /\ RatLeq(Rat(0, 1), ratio)
           /\ RatLeq(ratio, Rat(1, 1))

\* a required list that repeats a skill, a candidate list out of order, and
\* a ratio strictly between 0 and 1
C6_Witness ==
    /\ Covered
    /\ Len(args.jd_skills) > Cardinality(SetOf(args.jd_skills))
    /\ ~Ascending(args.resume_skills)
    /\ Len(ret.matched_skills) >= 1
    /\ Len(ret.missing_skills) >= 1
    /\ ret.coverage_percentage[1] * 2 = ret.coverage_percentage[2]

Fused == fn = "calculate_final_score"

\* C7: for scores s, c in [0, 1], calculate_final_score returns
\* 0.6*s + 0.4*c under the default weights and semantic*s + skill*c under
\* given weights, whatever they sum to, with no clamping.
C7_LinearBlend ==
    Fused =>
        LET s == args.semantic_score
            c == args.skill_coverage
            w == args.weights
            f == ret.final_score
        IN /\ f[2] > 0
           /\ w.none =>
                f[1] * (10 * s[2] * c[2])
                    = f[2] * (6 * s[1] * c[2] + 4 * c[1] * s[2])
           /\ ~w.none =>
                f[1] * (w.semantic[2] * s[2] * w.skill[2] * c[2])
                    = f[2] * (w.semantic[1] * s[1] * w.skill[2] * c[2]
                              + w.skill[1] * c[1] * w.semantic[2] * s[2])

\* weights that sum to 2 give a final score above 1
C7_Witness ==
    /\ Fused
    /\ ~args.weights.none
    /\ ~RatEq(RatAdd(args.weights.semantic, args.weights.skill), Rat(1, 1))
    /\ ~RatLeq(ret.final_score, Rat(1, 1))

Extracted == fn = "extract_skills"

Measured == fn = "extract_years_of_experience"

Captures(text) == Floats(findall(1, text)) \o Floats(findall(2, text))

FiveYearsAlsoThree ==
    <<"5", "+", " ", "y", "e", "a", "r", "s", ",", " ",
      "a", "l", "s", "o", " ", "3", " ", "y", "r", "s">>

\* C9: extract_years_of_experience returns 0.0 when no pattern matches (in
\* particular when the text has no digit followed later by "y"), otherwise
\* the largest captured number; it is never negative, and
\* "5+ years, also 3 yrs" gives 5.0.
C9_MaxYears ==
    Measured =>
        LET text == args.text
            caps == Captures(text)
        IN /\ ret[2] > 0
           /\ RatLeq(Rat(0, 1), ret)
           /\ caps = <<>> => RatEq(ret, Rat(0, 1))
           /\ caps # <<>> =>
                /\ \E k \in 1..Len(caps) : RatEq(ret, caps[k])
                /\ \A k \in 1..Len(caps) : RatLeq(caps[k], ret)
           /\ (~\E i, j \in 1..Len(text) :
                   i < j /\ IsDigit(text[i]) /\ text[j] = "y")
                => RatEq(ret, Rat(0, 1))
           /\ text = FiveYearsAlsoThree => RatEq(ret, Rat(5, 1))

C9_Witness ==
    /\ Measured
    /\ args.text = FiveYearsAlsoThree
    /\ Len(Captures(args.text)) = 3
    /\ RatEq(ret, Rat(5, 1))

----------------------------------------------------------------------------
(* Properties of the endpoints, under Spec *)

Finished(r) == pc[r] = "done"

\* the upload is a PDF or DOCX by name and its reader yields some text
ReadableSupported(request) ==
    /\ splitext_ext(request.filename)
           \in {<<".", "p", "d", "f">>, <<".", "d", "o", "c", "x">>}
    /\ request.upload.readable
    /\ request.upload.text # <<>>

\* C1: when the model failed to load, every rank request with a readable,
\* supported resume still completes with a result record whose
\* semantic_similarity is 0.0.
C1_DegradesWithoutModel ==
    \A r \in Reqs :
        (MODEL = "None" /\ Finished(r) /\ ReadableSupported(req[r])) =>
            /\ resp[r].status = 200
            /\ resp[r].body # <<>>
            /\ RatEq(resp[r].body[1].semantic_similarity, Rat(0, 1))

\* C2: when parse_resume returns an error, the request ends with a 400-class
\* outcome and no result record.
C2_ExtractionFailureIsClientError ==
    \A r \in Reqs :
        (Finished(r) /\ parsed[r] # <<>> /\ parsed[r][1].error # "") =>
            /\ resp[r].status \in 400..499
            /\ resp[r].body = <<>>

\* C3: once a rank request has finished, on whatever path, the temporary
\* file created for it no longer exists.
C3_TempFileReleased ==
    \A r \in Reqs :
        (Finished(r) /\ created[r] # <<>>) => created[r] \notin fs

\* C10: the answer of the health operation tells whether the model loaded:
\* it is the answer a process with the model gives exactly when MODEL is
\* loaded.
C10_HealthReportsModel ==
    root # NoAnswer => ((root = read_root) <=> (MODEL = "loaded"))

====
